---- MODULE Spec2Model ----
(***************************************************************************)
(* Model of build_fad_tracks.py: the cumulative archive all_points.csv     *)
(* across runs of main() (merge, in_area classification, activity window,  *)
(* latest positions) and the DMS parser dms_to_dd.                         *)
(*                                                                         *)
(* Time is counted in whole days.  A position is an abstract place code:   *)
(* 0 lies outside both polygons, 1 strictly inside the deployment polygon, *)
(* 2 on the boundary of the operational polygon.  lat/lon/speed/course of  *)
(* a fix are carried together as that one value.                           *)
(***************************************************************************)
EXTENDS Integers, Sequences, FiniteSets

VARIABLES
    all_points,       \* rows of the persisted all_points.csv, in file order
    archive_exists,   \* os.path.exists(all_points_path)
    df_existing,      \* the archive as read by this run (<<>> when not read)
    df_current,       \* this run's cleaned incoming batch
    merge_path,       \* branch of the merge taken by the last run
    dep_status,       \* condition of the deployment polygon CSV for the last run
    op_status,        \* condition of the operational polygon CSV for the last run
    deployment_poly,  \* polygon object or None
    operational_poly, \* polygon object or None
    cutoff,           \* now - active_days of the last run
    active_ids,       \* set of ACTIVE buoy ids
    inactive,         \* rows of inactive_buoys.csv
    latest,           \* rows of latest_positions.csv
    dms,              \* input string of dms_to_dd, a sequence of characters
    dd                \* outcome of dms_to_dd on dms

vars == <<all_points, archive_exists, df_existing, df_current, merge_path,
          dep_status, op_status, deployment_poly, operational_poly, cutoff,
          active_ids, inactive, latest, dms, dd>>

-----------------------------------------------------------------------------
(* Bounds of the model *)

\* Longest incoming batch of the archive runs.
MaxBatch == 2
\* Longest incoming batch of the area and activity runs.
MaxViewBatch == 1
\* Longest input string of dms_to_dd.
MaxDmsLen == 6

\* Buoy ids in sort order (sort_values('buoy_id') orders them as listed).
BuoyIds == <<"B1", "B2">>
Buoys == {BuoyIds[i] : i \in DOMAIN BuoyIds}

None == "None"

-----------------------------------------------------------------------------
(* Sequence helpers *)

Range(s) == {s[i] : i \in DOMAIN s}

RECURSIVE Pick(_, _, _)
\* The rows of s at the indexes I, in their order in s, from index i on.
Pick(s, I, i) ==
    IF i > Len(s) THEN <<>>
    ELSE (IF i \in I THEN <<s[i]>> ELSE <<>>) \o Pick(s, I, i + 1)

RECURSIVE ArgSort(_, _)
\* Every ordering of the indexes I by ascending sort key k[i].  The order of
\* equal keys is not fixed by the default (unstable) sort kind, so each
\* ordering of a tie is a possible outcome.
ArgSort(k, I) ==
    IF I = {} THEN {<<>>}
    ELSE LET m == CHOOSE x \in {k[i] : i \in I} : \A j \in I : x <= k[j]
         IN  UNION {{<<i>> \o t : t \in ArgSort(k, I \ {i})} :
                        i \in {j \in I : k[j] = m}}

Take(s, idx) == [n \in DOMAIN idx |-> s[idx[n]]]

BuoyRank(b) == CHOOSE i \in DOMAIN BuoyIds : BuoyIds[i] = b

SeqsUpTo(S, n) == UNION {[1..m -> S] : m \in 0..n}

-----------------------------------------------------------------------------
(* Frames *)

Fix(b, t, p) == [buoy_id |-> b, timestamp |-> t, pos |-> p]

\* Fixes of the archive runs: one key reported with two different positions,
\* and a second key.
ArchiveFixes == {Fix("B1", 1, 0), Fix("B1", 1, 1), Fix("B2", 2, 0)}
\* Fixes of the area runs: one key at each of the three places.
AreaFixes == {Fix("B1", 1, p) : p \in {0, 1, 2}}
\* Fixes of the activity runs: two buoys on two days.
ActivityFixes == {Fix(b, t, 0) : b \in Buoys, t \in {1, 2}}
\* pd.Timestamp.now() of a run, in days.
Nows == {3}
\* --active-days of the activity runs, for a cutoff of day 2 or day 1.
ActiveDaysArgs == {1, 2}
\* default=7 of --active-days
DefaultActiveDays == 7

Key(r) == <<r.buoy_id, r.timestamp>>
Keys(df) == {Key(df[i]) : i \in DOMAIN df}
Ids(df) == {df[i].buoy_id : i \in DOMAIN df}
Data(r) == Fix(r.buoy_id, r.timestamp, r.pos)

\* pd.read_csv(all_points_path, parse_dates=['timestamp']): the seven
\* columns written by to_csv, the data columns and in_area.
read_csv(file) ==
    [i \in DOMAIN file |->
        [buoy_id |-> file[i].buoy_id, timestamp |-> file[i].timestamp,
         pos |-> file[i].pos, in_area |-> file[i].in_area]]

\* pd.concat([df_existing, df_current]): df_current has no in_area column;
\* its rows get a missing in_area, which line 304 overwrites before any read.
concat(existing, current) ==
    existing \o [i \in DOMAIN current |->
        [buoy_id |-> current[i].buoy_id, timestamp |-> current[i].timestamp,
         pos |-> current[i].pos, in_area |-> FALSE]]

\* Faulty variant: keep='first'.
drop_duplicates_first(df) ==
    Pick(df, {i \in DOMAIN df :
                \A j \in DOMAIN df : j < i => Key(df[j]) # Key(df[i])}, 1)

\* combined.drop_duplicates(subset=['buoy_id', 'timestamp'], keep='last')
drop_duplicates(df) ==
    Pick(df, {i \in DOMAIN df :
                \A j \in DOMAIN df : j > i => Key(df[j]) # Key(df[i])}, 1)

\* Lines 286-298: df_all before the sort.
merge(exists, readOk, file, current) ==
    IF exists /\ readOk
    THEN drop_duplicates(concat(read_csv(file), current))
    ELSE concat(<<>>, current)

\* df.sort_values('timestamp', ascending=False).reset_index(drop=True):
\* the possible outcomes.
sort_values_desc(df) ==
    {Take(df, idx) :
        idx \in ArgSort([i \in DOMAIN df |-> 0 - df[i].timestamp], DOMAIN df)}

-----------------------------------------------------------------------------
(* Polygons *)

PolyStatus == {"ok", "unreadable", "degenerate"}

\* Lines 239-257.  "unreadable": load_area_csv or the ring closing raises
\* (lines 242-251), before either polygon is assigned.  "degenerate": the
\* Polygon constructor raises (line 253 or 254).
load_polygons(depSt, opSt) ==
    IF depSt = "unreadable" \/ opSt = "unreadable" THEN <<None, None>>
    ELSE IF depSt = "degenerate" THEN <<None, None>>
    ELSE IF opSt = "degenerate" THEN <<"deployment", None>>
    ELSE <<"deployment", "operational">>

\* shapely: poly.contains(p) for the interior, poly.touches(p) for the boundary.
contains(poly, p) == poly = "deployment" /\ p = 1
touches(poly, p) == poly = "operational" /\ p = 2

inside_any(dep, op, p) ==
    contains(dep, p) \/ touches(dep, p) \/ contains(op, p) \/ touches(op, p)

\* Faulty variant: each polygon that is available is used.
classify_per_polygon(df, dep, op) ==
    [i \in DOMAIN df |-> [df[i] EXCEPT !.in_area = inside_any(dep, op, df[i].pos)]]

\* Faulty variant: the stored flag is kept when the polygons are unavailable.
classify_keep_stored(df, dep, op) ==
    IF dep # None /\ op # None
    THEN [i \in DOMAIN df |->
            [df[i] EXCEPT !.in_area = inside_any(dep, op, df[i].pos)]]
    ELSE df

\* Lines 303-316: in_area for the whole archive.
classify(df, dep, op) ==
    IF dep # None /\ op # None
    THEN [i \in DOMAIN df |->
            [df[i] EXCEPT !.in_area = inside_any(dep, op, df[i].pos)]]
    ELSE [i \in DOMAIN df |-> [df[i] EXCEPT !.in_area = FALSE]]

-----------------------------------------------------------------------------
(* Activity window *)

MaxOf(S) == CHOOSE x \in S : \A y \in S : y <= x

\* df_all.groupby('buoy_id')['timestamp'].max()
last_seen(df) ==
    [b \in Ids(df) |-> MaxOf({df[i].timestamp : i \in {j \in DOMAIN df : df[j].buoy_id = b}})]

\* Faulty variant: a strict comparison with the cutoff.
active_set_strict(df, cut) ==
    LET ls == last_seen(df) IN {b \in DOMAIN ls : ls[b] > cut}

\* Line 324.
active_set(df, cut) ==
    LET ls == last_seen(df) IN {b \in DOMAIN ls : ls[b] >= cut}

\* df.sort_values(column): the possible outcomes, ascending by the integer
\* sort key k[i] of row i.
sort_values(df, k) == {Take(df, idx) : idx \in ArgSort(k, DOMAIN df)}

\* Faulty variant: the ~isin(active_ids) filter is left out.
inactive_table_unfiltered(df, act) ==
    LET ls == last_seen(df)
        grp == Pick(BuoyIds, {i \in DOMAIN BuoyIds : BuoyIds[i] \in DOMAIN ls}, 1)
        tab == [i \in DOMAIN grp |-> [buoy_id |-> grp[i], last_seen |-> ls[grp[i]]]]
    IN  sort_values(tab, [i \in DOMAIN tab |-> tab[i].last_seen])

\* Line 325: the possible outcomes of
\* last_seen[~last_seen['buoy_id'].isin(active_ids)].sort_values('last_seen').
\* groupby yields the groups in buoy_id order.
inactive_table(df, act) ==
    LET ls == last_seen(df)
        grp == Pick(BuoyIds, {i \in DOMAIN BuoyIds : BuoyIds[i] \in DOMAIN ls \ act}, 1)
        tab == [i \in DOMAIN grp |-> [buoy_id |-> grp[i], last_seen |-> ls[grp[i]]]]
    IN  sort_values(tab, [i \in DOMAIN tab |-> tab[i].last_seen])

\* Line 332.
active_rows(df, act) == Pick(df, {i \in DOMAIN df : df[i].buoy_id \in act}, 1)

\* drop_duplicates(subset=['buoy_id'], keep='first')
first_per_buoy(df) ==
    Pick(df, {i \in DOMAIN df :
                \A j \in DOMAIN df : j < i => df[j].buoy_id # df[i].buoy_id}, 1)

\* sort_values('buoy_id')
sort_by_buoy(df) == sort_values(df, [i \in DOMAIN df |-> BuoyRank(df[i].buoy_id)])

\* Faulty variant: the oldest row of each active buoy.
latest_rows_oldest(df, act) ==
    LET a == active_rows(df, act)
    IN  UNION {sort_by_buoy(first_per_buoy(s)) :
                s \in sort_values(a, [i \in DOMAIN a |-> a[i].timestamp])}

\* Lines 335-337: the possible outcomes of sort_values('timestamp',
\* ascending=False).drop_duplicates(['buoy_id'], keep='first').sort_values('buoy_id').
latest_rows(df, act) ==
    UNION {sort_by_buoy(first_per_buoy(s)) :
            s \in sort_values_desc(active_rows(df, act))}

-----------------------------------------------------------------------------
(* dms_to_dd.  A string is a sequence of characters; the typographic quote  *)
(* glyphs of line 50 are written by name.  A float is kept as its sign bit *)
(* and its magnitude, so that -0.0 is a value of its own.                  *)

DmsChars == {"-", "0", "3", "'", ".", "S", "N"}

Digits == {"0", "1", "2", "3", "4", "5", "6", "7", "8", "9"}
HemLetters == {"N", "n", "S", "s", "E", "e", "W", "w"}
IsDigit(c) == c \in Digits

DigitVal(c) ==
    CASE c = "0" -> 0 [] c = "1" -> 1 [] c = "2" -> 2 [] c = "3" -> 3
      [] c = "4" -> 4 [] c = "5" -> 5 [] c = "6" -> 6 [] c = "7" -> 7
      [] c = "8" -> 8 [] c = "9" -> 9

RECURSIVE ToNat(_)
ToNat(ds) ==
    IF ds = <<>> THEN 0
    ELSE ToNat(SubSeq(ds, 1, Len(ds) - 1)) * 10 + DigitVal(ds[Len(ds)])

\* Line 50: the replace chain.
normalize_glyph(c) ==
    CASE c = "rsquo" -> "'" [] c = "rdquo" -> "\"" [] c = "dprime" -> "\""
      [] c = "prime" -> "'" [] OTHER -> c

upper(c) ==
    CASE c = "n" -> "N" [] c = "s" -> "S" [] c = "e" -> "E" [] c = "w" -> "W"
      [] OTHER -> c

\* Lines 53-54: the last hemisphere letter, upper-cased, or None.
hemisphere(s) ==
    LET at == {i \in DOMAIN s : s[i] \in HemLetters}
    IN  IF at = {} THEN None
        ELSE upper(s[CHOOSE i \in at : \A j \in at : j <= i])

\* Line 57: re.sub(r'[NnSsEeWw]', '', s)
strip_hemisphere(s) == Pick(s, {i \in DOMAIN s : s[i] \notin HemLetters}, 1)

RECURSIVE RunEnd(_, _, _)
\* The last index of the run of digits (d) or of non-digits (~d) that starts
\* at i: what a greedy \d+ or \D+ followed by the other class consumes.
RunEnd(s, i, d) ==
    IF i < Len(s) /\ IsDigit(s[i + 1]) = d THEN RunEnd(s, i + 1, d) ELSE i

NoMatch == [found |-> FALSE, deg |-> <<>>, minutes |-> <<>>, min_frac |-> <<>>,
            sec |-> <<>>, sec_frac |-> <<>>]

\* (?:\.\d+)? after the digit run that ends at e: the digits of the fraction.
Fraction(s, e) ==
    IF e + 2 <= Len(s) /\ s[e + 1] = "." /\ IsDigit(s[e + 2])
    THEN SubSeq(s, e + 2, RunEnd(s, e + 2, TRUE))
    ELSE <<>>

\* (-?\d+)\D+(\d+)\D+(\d+(?:\.\d+)?) matched at position i.
match_dms(s, i) ==
    LET j == IF s[i] = "-" THEN i + 1 ELSE i
    IN  IF ~(j <= Len(s) /\ IsDigit(s[j])) THEN NoMatch
        ELSE LET e1 == RunEnd(s, j, TRUE)
             IN  IF e1 + 1 > Len(s) THEN NoMatch
                 ELSE LET e2 == RunEnd(s, e1 + 1, FALSE)
                      IN  IF e2 + 1 > Len(s) THEN NoMatch
                          ELSE LET e3 == RunEnd(s, e2 + 1, TRUE)
                               IN  IF e3 + 1 > Len(s) THEN NoMatch
                                   ELSE LET e4 == RunEnd(s, e3 + 1, FALSE)
                                        IN  IF e4 + 1 > Len(s) THEN NoMatch
                                            ELSE LET e5 == RunEnd(s, e4 + 1, TRUE)
                                                 IN  [found |-> TRUE,
                                                      deg |-> SubSeq(s, i, e1),
                                                      minutes |-> SubSeq(s, e2 + 1, e3),
                                                      min_frac |-> <<>>,
                                                      sec |-> SubSeq(s, e4 + 1, e5),
                                                      sec_frac |-> Fraction(s, e5)]

\* (-?\d+)\D+(\d+(?:\.\d+)?) matched at position i.
match_dm(s, i) ==
    LET j == IF s[i] = "-" THEN i + 1 ELSE i
    IN  IF ~(j <= Len(s) /\ IsDigit(s[j])) THEN NoMatch
        ELSE LET e1 == RunEnd(s, j, TRUE)
             IN  IF e1 + 1 > Len(s) THEN NoMatch
                 ELSE LET e2 == RunEnd(s, e1 + 1, FALSE)
                      IN  IF e2 + 1 > Len(s) THEN NoMatch
                          ELSE LET e3 == RunEnd(s, e2 + 1, TRUE)
                               IN  [found |-> TRUE,
                                    deg |-> SubSeq(s, i, e1),
                                    minutes |-> SubSeq(s, e2 + 1, e3),
                                    min_frac |-> Fraction(s, e3),
                                    sec |-> <<"0">>,
                                    sec_frac |-> <<>>]

\* re.search: the match at the leftmost position that has one.  Lines 60-72:
\* the three-group pattern first, the two-group pattern as the fallback.
parse_dms(s) ==
    LET at3 == {i \in DOMAIN s : match_dms(s, i).found}
        at2 == {i \in DOMAIN s : match_dm(s, i).found}
    IN  IF at3 # {} THEN match_dms(s, CHOOSE i \in at3 : \A j \in at3 : i <= j)
        ELSE IF at2 # {} THEN match_dm(s, CHOOSE i \in at2 : \A j \in at2 : i <= j)
        ELSE NoMatch

\* float(m.group(1)): sign bit and magnitude of the degree field.
deg_float(text) ==
    IF text[1] = "-" THEN [neg |-> TRUE, mag |-> ToNat(Tail(text))]
    ELSE [neg |-> FALSE, mag |-> ToNat(text)]

\* x < 0 for a float: false for -0.0.
float_lt_zero(x) == x.neg /\ x.mag > 0

NotRun == [status |-> "none", neg |-> FALSE, deg |-> 0, minutes |-> 0,
           min_frac |-> <<>>, sec |-> 0, sec_frac |-> <<>>]

\* Lines 41-85.  The result is status "ValueError", or status "ok" with the
\* sign bit of dd and the terms of |deg| + minutes/60 + sec/3600.
dms_to_dd(str) ==
    LET s == [i \in DOMAIN str |-> normalize_glyph(str[i])]
        hem == hemisphere(s)
        m == parse_dms(strip_hemisphere(s))
        deg == deg_float(m.deg)
    IN  IF ~m.found THEN [NotRun EXCEPT !.status = "ValueError"]
        ELSE [status |-> "ok",
              neg |-> IF hem \in {"S", "W"} THEN TRUE
                      ELSE IF hem \in {"N", "E"} THEN FALSE
                      ELSE float_lt_zero(deg),
              deg |-> deg.mag,
              minutes |-> ToNat(m.minutes), min_frac |-> m.min_frac,
              sec |-> ToNat(m.sec), sec_frac |-> m.sec_frac]

\* dd # 0
NonZero(x) ==
    \/ x.deg > 0 \/ x.minutes > 0 \/ x.sec > 0
    \/ \E i \in DOMAIN x.min_frac : x.min_frac[i] # "0"
    \/ \E i \in DOMAIN x.sec_frac : x.sec_frac[i] # "0"

-----------------------------------------------------------------------------
(* One run of the pipeline *)

Init ==
    /\ all_points = <<>>
    /\ archive_exists = FALSE
    /\ df_existing = <<>>
    /\ df_current = <<>>
    /\ merge_path = "none"
    /\ dep_status = "ok"
    /\ op_status = "ok"
    /\ deployment_poly = None
    /\ operational_poly = None
    /\ cutoff = 0
    /\ active_ids = {}
    /\ inactive = <<>>
    /\ latest = <<>>
    /\ dms = <<>>
    /\ dd = NotRun

\* main(), lines 238-350, for a cleaned batch (lines 259-279), the condition
\* of the two polygon CSVs, the clock, --active-days, and whether reading
\* the existing archive succeeds (the try of lines 287-295).
main(batch, depSt, opSt, now, active_days, readOk) ==
    /\ LET polys == load_polygons(depSt, opSt)
           combined == merge(archive_exists, readOk, all_points, batch)
       IN  \E df_sorted \in sort_values_desc(combined) :
             LET df_all == classify(df_sorted, polys[1], polys[2])
                 cut == now - active_days
                 act == active_set(df_all, cut)
             IN  /\ all_points' = df_all
                 /\ archive_exists' = TRUE
                 /\ df_existing' = IF archive_exists /\ readOk
                                   THEN read_csv(all_points) ELSE <<>>
                 /\ df_current' = batch
                 /\ merge_path' = IF ~archive_exists THEN "created"
                                  ELSE IF readOk THEN "appended"
                                  ELSE "unreadable"
                 /\ dep_status' = depSt
                 /\ op_status' = opSt
                 /\ deployment_poly' = polys[1]
                 /\ operational_poly' = polys[2]
                 /\ cutoff' = cut
                 /\ active_ids' = act
                 /\ inactive' \in inactive_table(df_all, act)
                 /\ latest' \in latest_rows(df_all, act)
    /\ UNCHANGED <<dms, dd>>

\* One call of dms_to_dd.
convert ==
    /\ dd.status = "none"
    /\ dd' = dms_to_dd(dms)
    /\ UNCHANGED <<all_points, archive_exists, df_existing, df_current,
                   merge_path, dep_status, op_status, deployment_poly,
                   operational_poly, cutoff, active_ids, inactive, latest, dms>>

InitDms ==
    /\ all_points = <<>>
    /\ archive_exists = FALSE
    /\ df_existing = <<>>
    /\ df_current = <<>>
    /\ merge_path = "none"
    /\ dep_status = "ok"
    /\ op_status = "ok"
    /\ deployment_poly = None
    /\ operational_poly = None
    /\ cutoff = 0
    /\ active_ids = {}
    /\ inactive = <<>>
    /\ latest = <<>>
    /\ dms \in SeqsUpTo(DmsChars, MaxDmsLen)
    /\ dd = NotRun

\* dms_to_dd on every string of the bounded alphabet.
SpecDms == InitDms /\ [][convert]_vars

\* Runs that vary the batch and whether the archive can be read.
NextArchive ==
    \E batch \in SeqsUpTo(ArchiveFixes, MaxBatch), now \in Nows,
       readOk \in BOOLEAN :
        main(batch, "ok", "ok", now, DefaultActiveDays, readOk)

SpecArchive == Init /\ [][NextArchive]_vars

\* Runs that vary the batch, the condition of the polygon CSVs and whether
\* the archive can be read.
NextArea ==
    \E batch \in SeqsUpTo(AreaFixes, MaxViewBatch),
       depSt \in PolyStatus, opSt \in PolyStatus, now \in Nows,
       readOk \in BOOLEAN :
        main(batch, depSt, opSt, now, DefaultActiveDays, readOk)

SpecArea == Init /\ [][NextArea]_vars

\* Runs that vary the batch, --active-days and whether the archive can be
\* read.
NextActivity ==
    \E batch \in SeqsUpTo(ActivityFixes, MaxViewBatch),
       now \in Nows, active_days \in ActiveDaysArgs, readOk \in BOOLEAN :
        main(batch, "ok", "ok", now, active_days, readOk)

SpecActivity == Init /\ [][NextActivity]_vars

-----------------------------------------------------------------------------
(* Properties *)

Ran == merge_path # "none"

RowsOf(df, b) == {i \in DOMAIN df : df[i].buoy_id = b}

\* The rows of a frame with their multiplicities, in_area left out.
DataBag(df) ==
    [r \in {Data(df[i]) : i \in DOMAIN df} |->
        Cardinality({i \in DOMAIN df : Data(df[i]) = r})]

\* C1: the persisted archive holds at most one row per (buoy_id, timestamp).
ArchiveKeysUnique ==
    \A i, j \in DOMAIN all_points :
        i # j => Key(all_points[i]) # Key(all_points[j])

\* C2: merging the batch of the last run into the archive it produced leaves
\* the archive's rows as they are (none added, removed or changed).
MergeIdempotent ==
    Ran => DataBag(merge(TRUE, TRUE, all_points, df_current)) = DataBag(all_points)

\* C3: after a run that read an existing archive, each key of the incoming
\* batch has exactly one row in the archive, and that row carries the values
\* of the last incoming row with the key; an archived row or an earlier
\* incoming row with the key is gone.
LastWriteWins ==
    merge_path = "appended" =>
        \A i \in DOMAIN df_current :
            LET same == {j \in DOMAIN df_current : Key(df_current[j]) = Key(df_current[i])}
                last == CHOOSE j \in same : \A k \in same : k <= j
                kept == {n \in DOMAIN all_points : Key(all_points[n]) = Key(df_current[i])}
            IN  /\ Cardinality(kept) = 1
                /\ \A n \in kept : Data(all_points[n]) = df_current[last]

\* C3 witness: a key archived with one position and reported twice by the
\* batch, last with another position.
LastWriteWinsCase ==
    /\ merge_path = "appended"
    /\ \E e \in DOMAIN df_existing, i, j \in DOMAIN df_current :
        /\ i < j
        /\ Key(df_current[i]) = Key(df_current[j])
        /\ Key(df_existing[e]) = Key(df_current[j])
        /\ df_existing[e].pos # df_current[j].pos
        /\ df_current[i].pos # df_current[j].pos

\* C4: no run removes a key from the persisted archive: every key archived
\* before a run is archived after it.
ArchiveKeysNeverLost ==
    [][Keys(all_points) \subseteq Keys(all_points')]_vars

OnePolygonOnly == Ran /\ ((dep_status = "ok") # (op_status = "ok"))
AvailablePolygon == IF dep_status = "ok" THEN "deployment" ELSE "operational"
InPolygon(poly, p) == contains(poly, p) \/ touches(poly, p)

ActivityPartition ==
    Ran =>
        LET listed == {inactive[i].buoy_id : i \in DOMAIN inactive}
        IN  /\ active_ids \cap listed = {}
            /\ active_ids \cup listed = Ids(all_points)
            /\ \A i, j \in DOMAIN inactive :
                i # j => inactive[i].buoy_id # inactive[j].buoy_id

\* C6 witness: an archive with an active and an inactive buoy.
ActivityPartitionCase ==
    Ran /\ active_ids # {} /\ inactive # <<>>

\* C7: a buoy is active iff some row of it in the whole merged archive has a
\* timestamp at or after the cutoff (its last_seen >= cutoff).
ActiveIffSeenSinceCutoff ==
    Ran =>
        \A b \in Buoys :
            b \in active_ids <=>
                \E i \in RowsOf(all_points, b) : all_points[i].timestamp >= cutoff

\* C7 witness: an active buoy that the current batch does not report and
\* whose last_seen equals the cutoff.
ActiveAtCutoffCase ==
    /\ Ran
    /\ \E b \in active_ids :
        /\ b \notin Ids(df_current)
        /\ \A i \in RowsOf(all_points, b) : all_points[i].timestamp <= cutoff

BothPolygonsUnavailable == Ran /\ dep_status # "ok" /\ op_status # "ok"

\* C8: after a run with both polygons unavailable every row of the archive
\* has in_area = False.
NoPolygonsAllFalse ==
    BothPolygonsUnavailable => \A i \in DOMAIN all_points : ~all_points[i].in_area

\* C8 witness: such a run carried over a row that was stored with
\* in_area = True.
StoredFlagRecomputedCase ==
    /\ BothPolygonsUnavailable
    /\ merge_path = "appended"
    /\ \E e \in DOMAIN df_existing :
        /\ df_existing[e].in_area
        /\ Key(df_existing[e]) \notin Keys(df_current)
        /\ \E i \in DOMAIN all_points : Data(all_points[i]) = Data(df_existing[e])

\* C9: latest has exactly one row per active buoy and none for another buoy,
\* and each row is an archive row of its buoy with the buoy's maximum timestamp.
LatestOnePerActiveBuoy ==
    Ran =>
        /\ {latest[i].buoy_id : i \in DOMAIN latest} = active_ids
        /\ \A i, j \in DOMAIN latest : i # j => latest[i].buoy_id # latest[j].buoy_id
        /\ \A i \in DOMAIN latest :
            /\ latest[i] \in Range(all_points)
            /\ \A n \in RowsOf(all_points, latest[i].buoy_id) :
                all_points[n].timestamp <= latest[i].timestamp

\* C9 witness: an active buoy with fixes of two days, beside an inactive buoy.
LatestCase ==
    /\ Ran
    /\ inactive # <<>>
    /\ \E b \in active_ids, i, j \in DOMAIN all_points :
        /\ all_points[i].buoy_id = b
        /\ all_points[j].buoy_id = b
        /\ all_points[i].timestamp < all_points[j].timestamp

Negative(x) == x.neg /\ NonZero(x)
Input == [i \in DOMAIN dms |-> normalize_glyph(dms[i])]
DegreeField == parse_dms(strip_hemisphere(Input)).deg

\* C10: for a parseable input, hemisphere S or W gives a result <= 0 and N
\* or E a result >= 0; without a hemisphere letter, a minus sign on the
\* degree field gives a negative result (degree -0 with nonzero minutes
\* included).
DmsSignRule ==
    dd.status = "ok" =>
        /\ hemisphere(Input) \in {"S", "W"} => (dd.neg \/ ~NonZero(dd))
        /\ hemisphere(Input) \in {"N", "E"} => (~dd.neg \/ ~NonZero(dd))
        /\ (hemisphere(Input) = None /\ DegreeField[1] = "-" /\ NonZero(dd))
              => Negative(dd)

====
